---- MODULE Spec2Model ----
(***************************************************************************)
(* garage: the Ornstein-Uhlenbeck exploration strategy                     *)
(* (garage/exploration_strategies/ou_strategy.py) and the Gaussian MLP     *)
(* policy (garage/contrib/torch/policies/gaussian_mlp_policy.py).          *)
(*                                                                         *)
(* Numbers.  The OU state is a numpy float64 vector, and every +, - and *  *)
(* of evolve_state and get_action rounds its exact result to the nearest   *)
(* representable value (ties to even).  The model keeps that: a value is   *)
(* an integer, a representable value has at most Prec significant bits,    *)
(* and Fl rounds an exact result to the nearest representable value.  Prec *)
(* is far smaller than float64's 53 bits so that the rounding cases occur  *)
(* among small numbers.                                                    *)
(***************************************************************************)
EXTENDS Integers, Sequences, FiniteSets, TLC

\* ---------------------------------------------------------------- bounds
Prec == 2        \* significant bits of a representable value
MaxMag == 4      \* |state[i]| is kept at or below this (guard of the actions)
MaxNoise == 1    \* a noise draw is -MaxNoise, 0 or MaxNoise
MaxBase == 3     \* a base-policy action component is -MaxBase, 0 or MaxBase
MaxT == 1        \* the timestep t is 0 or MaxT
BoxLim == 2      \* the finite bound of a bounded Box
MaxObsDim == 2   \* observation_space.flat_dim is in 1..MaxObsDim
MaxActDim == 2   \* action_space.flat_dim of the Gaussian policy is in 1..MaxActDim
MaxStd == 3      \* init_std is in 1..MaxStd
MaxBatch == 2    \* an observation batch has 1..MaxBatch rows

\* the values of mu, theta and sigma tried
Mus == {0, 1}
Thetas == {0, 1}
Sigmas == {0, 1}

\* a value above every finite value of the model: numpy's inf
PosInf == 8 * (MaxMag + MaxBase + MaxNoise + 1)

VARIABLES
    phase,         \* "Uninitialized" | "Active" | "Failed": the OUStrategy object
    attrs,         \* names of the attributes the instance has
    mu, theta, sigma, action_space, state,   \* the attributes' values
    last,          \* the last call: its name, inputs, return value, exception
    gpPhase,       \* "none" | "raised" | "constructed": the GaussianMLPPolicy object
    gpArgs,        \* the constructor's arguments
    module_init,   \* nn.Module.__init__ has run on the instance
    gpAttrs,       \* names of the attributes the instance has
    policy_mu,     \* self.mu, the MLP
    log_std,       \* self.log_std, one value per action dimension (1/1000s)
    requires_grad, \* self.log_std is a trainable parameter
    gpLast         \* the last call on the policy

ouvars == <<phase, attrs, mu, theta, sigma, action_space, state, last>>
gpvars == <<gpPhase, gpArgs, module_init, gpAttrs, policy_mu, log_std,
            requires_grad, gpLast>>
vars == <<ouvars, gpvars>>

\* ------------------------------------------------------- float arithmetic
Abs(n) == IF n < 0 THEN -n ELSE n

RECURSIVE Pow2(_)
Pow2(k) == IF k = 0 THEN 1 ELSE 2 * Pow2(k - 1)

\* the spacing of representable values around magnitude a
RECURSIVE Ulp(_, _)
Ulp(a, u) == IF a \div u < Pow2(Prec) THEN u ELSE Ulp(a, 2 * u)

\* round to nearest representable, ties to even
FlRound(n) ==
    LET a == Abs(n)
        u == Ulp(a, 1)
        q == a \div u
        r == a % u
        up == IF 2 * r < u THEN q
              ELSE IF 2 * r > u THEN q + 1
              ELSE IF q % 2 = 0 THEN q ELSE q + 1
    IN  IF n < 0 THEN -(up * u) ELSE up * u

FlTable == [n \in -PosInf..PosInf |-> FlRound(n)]
Fl(n) == FlTable[n]

FAdd(a, b) == Fl(a + b)
FSub(a, b) == Fl(a - b)
FMul(a, b) == Fl(a * b)

Representable == {v \in -MaxMag..MaxMag : Fl(v) = v}

Min(a, b) == IF a <= b THEN a ELSE b
Max(a, b) == IF a >= b THEN a ELSE b

\* ---------------------------------------------------------- action spaces
RECURSIVE Prod(_)
Prod(s) == IF s = << >> THEN 1 ELSE Head(s) * Prod(Tail(s))

\* garage.envs.util.flat_dim of a Box: the number of its elements
flat_dim(space) == Prod(space.shape)

Box(shape, lo, hi) ==
    [kind |-> "Box", shape |-> shape,
     low |-> [i \in 1..Prod(shape) |-> lo],
     high |-> [i \in 1..Prod(shape) |-> hi]]

Discrete == [kind |-> "Discrete", shape |-> << >>, low |-> << >>, high |-> << >>]

\* a space whose every bound is finite
BoundedSpace(space) ==
    /\ \A i \in DOMAIN space.low : space.low[i] > -PosInf
    /\ \A i \in DOMAIN space.high : space.high[i] < PosInf

\* the action spaces an env_spec is given: low <= high in each of them
Spaces ==
    {Discrete,
     Box(<< >>, -BoxLim, BoxLim),
     Box(<<1, 1>>, -BoxLim, BoxLim),
     Box(<<1>>, -BoxLim, BoxLim),
     Box(<<1>>, 0, BoxLim),
     Box(<<1>>, -PosInf, PosInf),
     Box(<<2>>, -BoxLim, BoxLim)}

NoSpace == [kind |-> "none", shape |-> << >>, low |-> << >>, high |-> << >>]
NoArgs == [action_space |-> NoSpace, mu |-> 0, theta |-> 0, sigma |-> 0]

Call(op) ==
    [op |-> op, args |-> NoArgs, t |-> 0, base |-> << >>, noise |-> << >>,
     ret |-> << >>, exc |-> "none", calls |-> << >>, moved |-> FALSE]

\* --------------------------------------------------------------- OUStrategy
\* np.ones(flat_dim(self.action_space)) * self.mu
ResetOnes(space, m) == [i \in 1..flat_dim(space) |-> 1]
ResetState(space, m) == [i \in 1..flat_dim(space) |-> FMul(1, m)]

\* the two asserts of __init__
InitAcceptsAnyBox(space) == space.kind = "Box"
InitAccepts(space) == space.kind = "Box" /\ Len(space.shape) = 1

\* x + (theta * (mu - x) + sigma * randn(len(x)))
EvolveUnscaledNoise(x, N, m, th, sg) ==
    [i \in DOMAIN x |-> FAdd(x[i], FAdd(FMul(th, FSub(m, x[i])), N[i]))]
EvolveNoCarry(x, N, m, th, sg) ==
    [i \in DOMAIN x |-> FAdd(FMul(th, FSub(m, x[i])), FMul(sg, N[i]))]
EvolveFn(x, N, m, th, sg) ==
    [i \in DOMAIN x |->
        FAdd(x[i], FAdd(FMul(th, FSub(m, x[i])), FMul(sg, N[i])))]

\* np.clip(v, low, high) = minimum(maximum(v, low), high)
ClipUpperOnly(v, lo, hi) == [i \in DOMAIN v |-> Min(v[i], hi[i])]
Clip(v, lo, hi) == [i \in DOMAIN v |-> Min(Max(v[i], lo[i]), hi[i])]

\* the vectors <<v, -v, v, ...>> and <<v, 0, 0, ...>> of length d
Alternating(d, v) == [i \in 1..d |-> IF i % 2 = 1 THEN v ELSE -v]
Ramp(d, v) == [i \in 1..d |-> IF i = 1 THEN v ELSE 0]

VAdd(a, b) == [i \in DOMAIN a |-> FAdd(a[i], b[i])]

\* what policy.get_action(observation) does: raises, or returns (action, aux)
PolicyOutcomes(d) ==
    {[raises |-> TRUE, action |-> << >>, aux |-> 0]} \cup
    {[raises |-> FALSE, action |-> Alternating(d, Fl(r[1])), aux |-> r[2]] :
        r \in {<<-MaxBase, 0>>, <<0, 0>>, <<0, 1>>, <<MaxBase, 1>>}}

\* randn(d): one draw per dimension
NoiseVecs(d) ==
    {Alternating(d, n) : n \in {-MaxNoise, 0, MaxNoise}} \cup {Ramp(d, 1)}

\* the states __setstate__ is given
SavedStates(d) ==
    {Alternating(d, v) : v \in Representable} \cup
    {Ramp(d, v) : v \in Representable}

\* get_action: the base action first, then one evolve_state, then the clip
GetActionEvolveFirst(x, pol, N, t, m, th, sg, space) ==
    LET s == EvolveFn(x, N, m, th, sg)
    IN  IF pol.raises
        THEN [state |-> s, noise |-> N, ret |-> << >>, exc |-> "PolicyError",
              calls |-> <<"evolve_state", "policy.get_action">>]
        ELSE [state |-> s, noise |-> N,
              ret |-> Clip(VAdd(pol.action, s), space.low, space.high),
              exc |-> "none",
              calls |-> <<"evolve_state", "policy.get_action", "clip">>]
GetActionFn(x, pol, N, t, m, th, sg, space) ==
    IF pol.raises
    THEN [state |-> x, noise |-> << >>, ret |-> << >>, exc |-> "PolicyError",
          calls |-> <<"policy.get_action">>]
    ELSE LET s == EvolveFn(x, N, m, th, sg)
         IN  [state |-> s, noise |-> N,
              ret |-> Clip(VAdd(pol.action, s), space.low, space.high),
              exc |-> "none",
              calls |-> <<"policy.get_action", "evolve_state", "clip">>]

InRange(x) == \A i \in DOMAIN x : Abs(x[i]) <= MaxMag

OUInit ==
    /\ phase = "Uninitialized"
    /\ attrs = {}
    /\ mu = 0 /\ theta = 0 /\ sigma = 0
    /\ action_space = NoSpace
    /\ state = << >>
    /\ last = Call("none")

\* OUStrategy(env_spec, mu, theta, sigma)
Construct ==
    /\ phase # "Active"
    /\ UNCHANGED gpvars
    /\ \E space \in Spaces, m \in Mus, th \in Thetas, sg \in Sigmas :
        LET args == [action_space |-> space, mu |-> m, theta |-> th, sigma |-> sg]
        IN  IF InitAccepts(space)
            THEN /\ phase' = "Active"
                 /\ attrs' = {"mu", "theta", "sigma", "action_space", "state"}
                 /\ mu' = m /\ theta' = th /\ sigma' = sg
                 /\ action_space' = space
                 /\ state' = ResetState(space, m)
                 /\ last' = [Call("__init__") EXCEPT !.args = args]
            ELSE /\ phase' = "Failed"
                 /\ attrs' = {}
                 /\ mu' = 0 /\ theta' = 0 /\ sigma' = 0
                 /\ action_space' = NoSpace
                 /\ state' = << >>
                 /\ last' = [Call("__init__") EXCEPT !.args = args,
                                                     !.exc = "AssertionError"]

\* reset()
Reset ==
    /\ phase = "Active"
    /\ state' = ResetState(action_space, mu)
    /\ last' = [Call("reset") EXCEPT !.moved = (state' # state)]
    /\ UNCHANGED <<phase, attrs, mu, theta, sigma, action_space>>
    /\ UNCHANGED gpvars

\* __getstate__(): the saved constructor arguments and the state
GetState ==
    /\ phase = "Active"
    /\ last' = [Call("__getstate__") EXCEPT !.ret = state]
    /\ UNCHANGED <<phase, attrs, mu, theta, sigma, action_space, state>>
    /\ UNCHANGED gpvars

\* __setstate__(d): the saved constructor arguments, then state = d["state"]
SetState ==
    /\ phase = "Active"
    /\ \E d \in SavedStates(flat_dim(action_space)) :
          /\ state' = d
          /\ last' = [Call("__setstate__") EXCEPT !.moved = (d # state)]
    /\ UNCHANGED <<phase, attrs, mu, theta, sigma, action_space>>
    /\ UNCHANGED gpvars

\* evolve_state()
Evolve ==
    /\ phase = "Active"
    /\ \E N \in NoiseVecs(Len(state)) :
          LET s == EvolveFn(state, N, mu, theta, sigma)
          IN  /\ InRange(s)
              /\ state' = s
              /\ last' = [Call("evolve_state") EXCEPT
                             !.noise = N, !.ret = s, !.moved = (s # state)]
    /\ UNCHANGED <<phase, attrs, mu, theta, sigma, action_space>>
    /\ UNCHANGED gpvars

\* get_action(t, observation, policy)
GetAction ==
    /\ phase = "Active"
    /\ \E t \in {0, MaxT}, pol \in PolicyOutcomes(Len(state)),
          N \in NoiseVecs(Len(state)) :
          LET r == GetActionFn(state, pol, N, t, mu, theta, sigma, action_space)
          IN  /\ InRange(r.state)
              /\ state' = r.state
              /\ last' = [Call("get_action") EXCEPT
                             !.t = t, !.base = pol.action, !.noise = r.noise,
                             !.ret = r.ret, !.exc = r.exc, !.calls = r.calls,
                             !.moved = (r.state # state)]
    /\ UNCHANGED <<phase, attrs, mu, theta, sigma, action_space>>
    /\ UNCHANGED gpvars


\* ------------------------------------------------------- GaussianMLPPolicy
\* a Python call: TypeError when a required positional argument is missing
PyCall(given, required) == IF Len(given) < Len(required) THEN "TypeError" ELSE "none"

\* math.log and exp, in 1/1000s
LogMilli(n) ==
    CASE n = 1 -> 0 [] n = 2 -> 693 [] n = 3 -> 1099 [] n = 4 -> 1386
      [] n = 5 -> 1609 [] OTHER -> 1792
ExpMilli(l) == CHOOSE n \in 1..6 : LogMilli(n) = l

RECURSIVE SumSeq(_)
SumSeq(s) == IF s = << >> THEN 0 ELSE Head(s) + SumSeq(Tail(s))

\* garage.contrib.torch.core.mlp.MLP: a function from obs_dim to action_dim
NoMLP == [in |-> 0, out |-> 0, hidden |-> << >>, w |-> 0]
MLP(obs_dim, action_dim, hidden_sizes, w) ==
    [in |-> obs_dim, out |-> action_dim, hidden |-> hidden_sizes, w |-> w]
MLPApply(mlp, row) == [i \in 1..mlp.out |-> mlp.w * SumSeq(row)]

GPArgSets ==
    [obs_dim : 1..MaxObsDim, action_dim : 1..MaxActDim,
     hidden_sizes : {<< >>, <<32>>, <<32, 32>>}, learn_std : BOOLEAN,
     init_std : 1..MaxStd, adaptive_std : BOOLEAN]
NoGPArgs ==
    [obs_dim |-> 0, action_dim |-> 0, hidden_sizes |-> << >>,
     learn_std |-> FALSE, init_std |-> 1, adaptive_std |-> FALSE]

NoInstance ==
    [exc |-> "none", module_init |-> FALSE, attrs |-> {}, mu |-> NoMLP,
     log_std |-> << >>, requires_grad |-> FALSE]

\* lines 38-44 of __init__: self.mu and self.log_std
InitFields(a, w) ==
    [exc |-> "none", module_init |-> TRUE, attrs |-> {"mu", "log_std"},
     mu |-> MLP(a.obs_dim, a.action_dim, a.hidden_sizes, w),
     log_std |-> [i \in 1..a.action_dim |-> LogMilli(a.init_std) * 1],
     requires_grad |-> TRUE]

\* __init__: the adaptive_std guard, nn.Module.__init__(), then the fields
InitPolicyGuardAfterFields(a, w) ==
    IF a.adaptive_std
    THEN [InitFields(a, w) EXCEPT !.exc = "NotImplementedError"]
    ELSE IF PyCall(<< >>, <<"self">>) # "none"
    THEN [NoInstance EXCEPT !.exc = "TypeError"]
    ELSE InitFields(a, w)
InitPolicy(a, w) ==
    IF a.adaptive_std
    THEN [NoInstance EXCEPT !.exc = "NotImplementedError"]
    ELSE IF PyCall(<< >>, <<"self">>) # "none"
    THEN [NoInstance EXCEPT !.exc = "TypeError"]
    ELSE InitFields(a, w)

\* policy(obs): Normal(self.mu(obs), self.log_std.exp()), one row per observation
Policy(mlp, lstd, obs) ==
    [mean |-> [b \in DOMAIN obs |-> MLPApply(mlp, obs[b])],
     std |-> [i \in DOMAIN lstd |-> ExpMilli(lstd[i])]]

\* Normal.sample() and Normal.log_prob(action), elementwise
NormalSample(dist, eps) ==
    [b \in DOMAIN dist.mean |->
        [i \in DOMAIN dist.std |-> dist.mean[b][i] + dist.std[i] * eps[b][i]]]
LogProb(dist, action) ==
    [b \in DOMAIN dist.mean |->
        [i \in DOMAIN dist.std |->
            0 - ((500 * (action[b][i] - dist.mean[b][i])
                      * (action[b][i] - dist.mean[b][i]))
                    \div (dist.std[i] * dist.std[i]))
              - LogMilli(dist.std[i]) - 919]]

\* logpdf(obs, action): log_prob summed over the action dimensions
LogpdfFn(mlp, lstd, obs, action) ==
    LET lp == LogProb(Policy(mlp, lstd, obs), action)
    IN  [b \in DOMAIN obs |-> SumSeq(lp[b])]

\* a call self.logpdf(*argv)
CallLogpdf(mlp, lstd, argv) ==
    IF PyCall(argv, <<"obs", "action">>) # "none"
    THEN [exc |-> "TypeError", ret |-> << >>]
    ELSE [exc |-> "none", ret |-> LogpdfFn(mlp, lstd, argv[1], argv[2])]

\* sample(obs): one draw, then self.logpdf(actions)
SampleFn(mlp, lstd, obs, eps) ==
    LET actions == NormalSample(Policy(mlp, lstd, obs), eps)
        logpdf == CallLogpdf(mlp, lstd, <<actions>>)
    IN  IF logpdf.exc # "none"
        THEN [exc |-> logpdf.exc, ret |-> << >>]
        ELSE [exc |-> "none", ret |-> <<actions, logpdf.ret>>]

GPCall(op) ==
    [op |-> op, obs |-> << >>, action |-> << >>,
     ret |-> << >>, exc |-> "none"]

GPInit ==
    /\ gpPhase = "none"
    /\ gpArgs = NoGPArgs
    /\ module_init = FALSE
    /\ gpAttrs = {}
    /\ policy_mu = NoMLP
    /\ log_std = << >>
    /\ requires_grad = FALSE
    /\ gpLast = GPCall("none")

\* GaussianMLPPolicy(env_spec, hidden_sizes, learn_std, init_std, adaptive_std)
GPConstruct ==
    \E a \in GPArgSets, w \in {0, 1} :
        LET r == InitPolicy(a, w)
        IN  /\ UNCHANGED ouvars
            /\ gpPhase' = IF r.exc = "none" THEN "constructed" ELSE "raised"
            /\ gpArgs' = a
            /\ module_init' = r.module_init
            /\ gpAttrs' = r.attrs
            /\ policy_mu' = r.mu
            /\ log_std' = r.log_std
            /\ requires_grad' = r.requires_grad
            /\ gpLast' = [GPCall("__init__") EXCEPT !.exc = r.exc]

\* an instance whose attributes are as lines 38-44 assign them
PolicyInit ==
    \E a \in GPArgSets, w \in {0, 1} :
        LET r == InitFields(a, w)
        IN  /\ a.adaptive_std = FALSE
            /\ a.hidden_sizes = <<32, 32>>
            /\ gpPhase = "constructed"
            /\ gpArgs = a
            /\ module_init = r.module_init
            /\ gpAttrs = r.attrs
            /\ policy_mu = r.mu
            /\ log_std = r.log_std
            /\ requires_grad = r.requires_grad
            /\ gpLast = GPCall("none")
            /\ phase = "Uninitialized" /\ attrs = {}
            /\ mu = 0 /\ theta = 0 /\ sigma = 0
            /\ action_space = NoSpace /\ state = << >>
            /\ last = Call("none")

\* batches of observations, and of standard-normal draws, one row per observation
ObsBatches(d) == UNION {[1..n -> {Alternating(d, v) : v \in {0, 1}}] : n \in 1..MaxBatch}
EpsBatches(n, d) == [1..n -> {Alternating(d, e) : e \in {-1, 1}}]

\* sample(obs)
Sample ==
    /\ gpPhase = "constructed"
    /\ \E obs \in ObsBatches(policy_mu.in) :
       \E eps \in EpsBatches(Len(obs), Len(log_std)) :
          LET r == SampleFn(policy_mu, log_std, obs, eps)
          IN  gpLast' = [GPCall("sample") EXCEPT
                            !.obs = obs, !.ret = r.ret, !.exc = r.exc]
    /\ UNCHANGED <<gpPhase, gpArgs, module_init, gpAttrs, policy_mu, log_std,
                   requires_grad>>
    /\ UNCHANGED ouvars

\* forward(obs) = sample(obs)
Forward ==
    /\ gpPhase = "constructed"
    /\ \E obs \in ObsBatches(policy_mu.in) :
       \E eps \in EpsBatches(Len(obs), Len(log_std)) :
          LET r == SampleFn(policy_mu, log_std, obs, eps)
          IN  gpLast' = [GPCall("forward") EXCEPT
                            !.obs = obs, !.ret = r.ret, !.exc = r.exc]
    /\ UNCHANGED <<gpPhase, gpArgs, module_init, gpAttrs, policy_mu, log_std,
                   requires_grad>>
    /\ UNCHANGED ouvars

\* logpdf(obs, action)
Logpdf ==
    /\ gpPhase = "constructed"
    /\ \E obs \in ObsBatches(policy_mu.in) :
       \E eps \in EpsBatches(Len(obs), Len(log_std)) :
          LET action == NormalSample(Policy(policy_mu, log_std, obs), eps)
              r == CallLogpdf(policy_mu, log_std, <<obs, action>>)
          IN  gpLast' = [GPCall("logpdf") EXCEPT
                            !.obs = obs, !.action = action, !.ret = r.ret,
                            !.exc = r.exc]
    /\ UNCHANGED <<gpPhase, gpArgs, module_init, gpAttrs, policy_mu, log_std,
                   requires_grad>>
    /\ UNCHANGED ouvars

\* ----------------------------------------------------------- specifications
\* the OU strategy
Init == OUInit /\ GPInit
Next == Construct \/ Reset \/ GetState \/ SetState \/ Evolve \/ GetAction
Spec == Init /\ [][Next]_vars

\* construction of the Gaussian policy
GPNext == GPConstruct
SpecGP == Init /\ [][GPNext]_vars

\* the methods of the Gaussian policy, on an instance that has its attributes
PolicyNext == Sample \/ Forward \/ Logpdf
SpecPolicy == PolicyInit /\ [][PolicyNext]_vars

\* ------------------------------------------------------------------ claims
MuVector == [i \in 1..flat_dim(action_space) |-> mu]
ConfigUnchanged == UNCHANGED <<phase, attrs, mu, theta, sigma, action_space>>

\* C1: whenever get_action has returned, the returned vector is the base action
\* plus the evolved state, clipped: every component is >= low and <= high.
C1_ClipInvariant ==
    (phase = "Active" /\ last.op = "get_action" /\ last.exc = "none") =>
        /\ Len(last.ret) = flat_dim(action_space)
        /\ \A i \in DOMAIN last.ret :
              LET v == Fl(last.base[i] + state[i])
                  lo == action_space.low[i]
                  hi == action_space.high[i]
              IN  /\ lo <= last.ret[i] /\ last.ret[i] <= hi
                  /\ last.ret[i] = (IF v < lo THEN lo ELSE IF v > hi THEN hi ELSE v)

\* a get_action whose sum left the box on both sides and came back on its bounds
C1_Witness ==
    /\ phase = "Active" /\ last.op = "get_action" /\ last.exc = "none"
    /\ Len(state) = 2
    /\ Fl(last.base[1] + state[1]) > action_space.high[1]
    /\ last.ret[1] = action_space.high[1]
    /\ Fl(last.base[2] + state[2]) < action_space.low[2]
    /\ last.ret[2] = action_space.low[2]

\* C2: sample(obs) completes and returns (action, log_density) with
\* log_density = logpdf(obs, action) for that same action.
C2_SamplePairsDensity ==
    (gpLast.op = "sample") =>
        /\ gpLast.exc = "none"
        /\ Len(gpLast.ret) = 2
        /\ gpLast.ret[2] = LogpdfFn(policy_mu, log_std, gpLast.obs, gpLast.ret[1])

\* C3: construction with adaptive_std raises, and before anything is set up:
\* nn.Module is not initialised and the instance has neither mu nor log_std.
C3_AdaptiveStdRaisesFirst ==
    (gpLast.op = "__init__" /\ gpArgs.adaptive_std) =>
        /\ gpPhase = "raised"
        /\ gpLast.exc = "NotImplementedError"
        /\ ~module_init
        /\ gpAttrs = {}
        /\ policy_mu = NoMLP /\ log_std = << >>

C3_Witness ==
    /\ gpLast.op = "__init__" /\ gpArgs.adaptive_std
    /\ gpArgs.learn_std /\ gpArgs.action_dim = 2
    /\ gpLast.exc = "NotImplementedError"

\* C4: construction with adaptive_std false completes, and leaves a mean
\* function from obs_dim to action_dim and a log_std of length action_dim whose
\* every component is log(init_std).
C4_ConstructionCompletes ==
    (gpLast.op = "__init__" /\ ~gpArgs.adaptive_std) =>
        /\ gpPhase = "constructed" /\ gpLast.exc = "none"
        /\ {"mu", "log_std"} \subseteq gpAttrs
        /\ policy_mu.in = gpArgs.obs_dim /\ policy_mu.out = gpArgs.action_dim
        /\ Len(log_std) = gpArgs.action_dim
        /\ \A i \in DOMAIN log_std : log_std[i] = LogMilli(gpArgs.init_std)

\* C5: after construction, log_std is trainable if and only if learn_std.
C5_TrainableIffLearnStd ==
    (gpLast.op = "__init__" /\ ~gpArgs.adaptive_std) =>
        /\ gpLast.exc = "none"
        /\ "log_std" \in gpAttrs
        /\ requires_grad <=> gpArgs.learn_std

\* C6, as stated: construction succeeds only on a Box of rank 1 that is bounded.
C6_FailsUnlessBounded ==
    (last.op = "__init__" /\ phase = "Active") =>
        /\ last.args.action_space.kind = "Box"
        /\ Len(last.args.action_space.shape) = 1
        /\ BoundedSpace(last.args.action_space)

\* C6, amended: construction succeeds only on a Box of rank 1 (its bounds may be
\* infinite); after a failure there is no instance and no state; after a success
\* mu, theta, sigma and the action space are stored and state is mu everywhere.
C6_FailsUnlessRank1Box ==
    (last.op = "__init__") =>
        /\ phase \in {"Active", "Failed"}
        /\ (phase = "Active") =>
              /\ last.exc = "none"
              /\ last.args.action_space.kind = "Box"
              /\ Len(last.args.action_space.shape) = 1
              /\ {"mu", "theta", "sigma", "action_space", "state"} \subseteq attrs
              /\ mu = last.args.mu /\ theta = last.args.theta
              /\ sigma = last.args.sigma
              /\ action_space = last.args.action_space
              /\ Len(state) = flat_dim(last.args.action_space)
              /\ \A i \in DOMAIN state : state[i] = last.args.mu
        /\ (phase = "Failed") =>
              /\ last.exc = "AssertionError"
              /\ attrs = {}
              /\ state = << >>

\* a construction over an unbounded Box that succeeded
C6_Witness ==
    /\ last.op = "__init__" /\ phase = "Active"
    /\ ~BoundedSpace(action_space)
    /\ mu = 1 /\ state = <<1>>

\* C7: reset() leaves state = mu in every one of the flat dimensions, and
\* leaves mu, theta, sigma and action_space as they were.
C7_ResetToMu ==
    [][(last'.op = "reset") =>
          /\ Len(state') = flat_dim(action_space)
          /\ \A i \in DOMAIN state' : state'[i] = mu
          /\ ConfigUnchanged]_vars

\* a reset that changed a two-dimensional state
C7_Witness ==
    /\ last.op = "reset" /\ last.moved
    /\ Len(state) = 2 /\ mu = 1 /\ state = <<1, 1>>

\* C8: evolve_state() from x with draw N stores x + (theta*(mu - x) + sigma*N),
\* each operation rounded, returns the stored state, keeps its length, and
\* leaves mu, theta, sigma and action_space as they were.
C8_EvolveStep ==
    [][(last'.op = "evolve_state") =>
          /\ Len(state') = flat_dim(action_space)
          /\ Len(last'.noise) = Len(state)
          /\ \A i \in DOMAIN state :
                state'[i] = Fl(state[i] + Fl(Fl(theta * Fl(mu - state[i]))
                                             + Fl(sigma * last'.noise[i])))
          /\ last'.ret = state'
          /\ ConfigUnchanged]_vars

C8_Witness ==
    /\ last.op = "evolve_state" /\ last.moved
    /\ theta = 1 /\ sigma = 1 /\ mu = 1
    /\ Len(state) = 2 /\ last.noise = <<MaxNoise, -MaxNoise>>
    /\ last.ret = state /\ state # MuVector

\* C9, as stated: with theta = 1 and sigma = 0, after evolve_state the state is
\* mu exactly in every dimension.
C9_FullReversionExact ==
    (phase = "Active" /\ theta = 1 /\ sigma = 0 /\ last.op = "evolve_state") =>
        \A i \in DOMAIN state : state[i] = mu

\* C9, amended: with theta = 1 and sigma = 0, evolve_state from x stores
\* x + (mu - x) as rounded, whatever the draw; that is mu exactly wherever
\* mu - x is computed without rounding, as it is when mu = 0 and once the
\* state is mu.
C9_FullReversionRounded ==
    [][(last'.op = "evolve_state" /\ theta = 1 /\ sigma = 0) =>
          \A i \in DOMAIN state :
              /\ state'[i] = Fl(state[i] + Fl(mu - state[i]))
              /\ (Fl(mu - state[i]) = mu - state[i]) => state'[i] = mu
              /\ (mu = 0 \/ state[i] = mu) => state'[i] = mu]_vars

\* a full reversion to mu from another state, under a nonzero draw
C9_Witness ==
    /\ last.op = "evolve_state" /\ last.moved
    /\ theta = 1 /\ sigma = 0 /\ mu = 1
    /\ last.noise = <<MaxNoise, -MaxNoise>>
    /\ state = <<1, 1>>

\* C10: get_action asks the base policy once, first; then takes one
\* evolve_state step and adds the evolved state; neither the result nor the new
\* state depends on t; when the base policy raises, state is left as it was.
C10_GetActionSteps ==
    [][(last'.op = "get_action") =>
          /\ ConfigUnchanged
          /\ IF last'.exc # "none"
             THEN /\ state' = state
                  /\ last'.calls = <<"policy.get_action">>
             ELSE /\ last'.calls = <<"policy.get_action", "evolve_state", "clip">>
                  /\ \A i \in DOMAIN state :
                        /\ state'[i] =
                              Fl(state[i] + Fl(Fl(theta * Fl(mu - state[i]))
                                               + Fl(sigma * last'.noise[i])))
                        /\ last'.ret[i] =
                              Min(Max(Fl(last'.base[i] + state'[i]),
                                      action_space.low[i]),
                                  action_space.high[i])]_vars

C10_Witness ==
    /\ last.op = "get_action" /\ last.exc = "none" /\ last.moved
    /\ last.t = MaxT
    /\ last.calls = <<"policy.get_action", "evolve_state", "clip">>
    /\ sigma = 1 /\ last.noise = <<MaxNoise, -MaxNoise>>
    /\ last.base = <<-Fl(MaxBase), Fl(MaxBase)>>

====
